---- MODULE Spec2Model ----
(***************************************************************************)
(* Model of the vocabulary deck generator (main program, "zhu cheng xu").  *)
(*                                                                         *)
(* A Python str that goes through the text wrapper is modelled as a        *)
(* sequence of one-character strings, so that len(), slicing and join      *)
(* are computed as the code computes them.  Header names are atoms; the    *)
(* six Chinese column titles of REQUIRED_COLUMNS are written with the      *)
(* ASCII names the dictionary itself maps them to.                         *)
(***************************************************************************)
EXTENDS Integers, Sequences, FiniteSets, TLC

VARIABLES
    \* --- text wrapper harness ---
    text,        \* the str handed to process_text
    threshold,   \* its threshold argument
    result,      \* outcome of process_text(text, threshold)
    result2,     \* outcome of process_text applied to the first result
    tpc,         \* position of the harness
    \* --- the file system ---
    disk,        \* input path -> workbook (or an unreadable file)
    written,     \* output path -> what is stored there
    \* --- one run of the deck builder ---
    call,        \* entry point and arguments of the run
    pc,          \* position of the run
    data,        \* the records load_data returned
    ppt,         \* the deck being built: its slides in order
    index,       \* number of records turned into slides so far
    word_count,  \* len(data)
    outcome,     \* how the deck builder ended
    stdout,      \* the messages printed or raised so far
    proc,        \* the process: has it exited, and with which status
    \* --- the form of interactive mode ---
    gui,         \* the variables and widget states of PPTGeneratorGUI
    shown,       \* the message box of the handler that ran last
    escaped      \* an exception has left a handler uncaught

tvars == <<text, threshold, result, result2, tpc>>
fsvars == <<disk, written>>
bvars == <<call, pc, data, ppt, index, word_count, outcome, stdout, proc>>
gvars == <<gui, shown, escaped>>
vars == <<tvars, fsvars, bvars, gvars>>

\* ------------------------------------------------------------------------
\* Program constants
\* ------------------------------------------------------------------------

\* TEXT_WRAP_THRESHOLD = 40
TEXT_WRAP_THRESHOLD == 40

\* width of the indentation in the separator literal of process_text
INDENT_WIDTH == 18

\* ------------------------------------------------------------------------
\* Bounds of the model
\* ------------------------------------------------------------------------

\* length of the free part before the block of spaces of an input text
MaxFree == 2

\* largest threshold argument tried by the wrapper harness
MaxThreshold == 3

\* ------------------------------------------------------------------------
\* Python helpers
\* ------------------------------------------------------------------------

Min(a, b) == IF a <= b THEN a ELSE b

RECURSIVE Spaces(_)
Spaces(n) == IF n <= 0 THEN <<>> ELSE <<" ">> \o Spaces(n - 1)

\* text[i:j] for 0 <= i, with Python's clipping of the end (0-based, j exclusive)
Slice(s, i, j) ==
    LET hi == Min(j, Len(s))
    IN  IF i >= hi THEN <<>> ELSE [k \in 1..(hi - i) |-> s[i + k]]

\* len(range(start, stop, step)) for step # 0
RangeLen(start, stop, step) ==
    IF step > 0
    THEN IF start >= stop THEN 0 ELSE ((stop - start - 1) \div step) + 1
    ELSE IF start <= stop THEN 0 ELSE ((start - stop - 1) \div (0 - step)) + 1

\* list(range(start, stop, step)) for step # 0
PyRange(start, stop, step) ==
    [k \in 1..RangeLen(start, stop, step) |-> start + (k - 1) * step]

\* sep.join(lines[lo..hi]) (1-based, inclusive)
RECURSIVE JoinFrom(_, _, _, _)
JoinFrom(sep, lines, lo, hi) ==
    IF lo > hi THEN <<>>
    ELSE IF lo = hi THEN lines[lo]
    ELSE LET mid == (lo + hi) \div 2
         IN  JoinFrom(sep, lines, lo, mid) \o sep \o JoinFrom(sep, lines, mid + 1, hi)

\* sep.join(lines)
Join(sep, lines) == JoinFrom(sep, lines, 1, Len(lines))

\* the separator literal of process_text: a newline and the indentation
SEPARATOR == <<"\n">> \o Spaces(INDENT_WIDTH)

\* a call's outcome: a returned value, or a raised exception
Returned(v) == [raised |-> FALSE, value |-> v, error |-> ""]
Raised(e) == [raised |-> TRUE, value |-> <<>>, error |-> e]
NoResult == Raised("none")

\* process_text without the early return (mutant)
process_text_no_early_return(t, n) ==
    IF n = 0 THEN Raised("ValueError")
    ELSE Returned(Join(SEPARATOR,
            [k \in 1..Len(PyRange(0, Len(t), n)) |->
                Slice(t, PyRange(0, Len(t), n)[k], PyRange(0, Len(t), n)[k] + n)]))

\* process_text whose range stops before a shorter last chunk (mutant)
process_text_drops_tail(t, n) ==
    IF Len(t) <= n THEN Returned(t)
    ELSE IF n = 0 THEN Raised("ValueError")
    ELSE Returned(Join(SEPARATOR,
            [k \in 1..Len(PyRange(0, Len(t) - n + 1, n)) |->
                Slice(t, PyRange(0, Len(t), n)[k], PyRange(0, Len(t), n)[k] + n)]))

\* process_text whose slices run one character into the next chunk (mutant)
process_text_overlapping(t, n) ==
    IF Len(t) <= n THEN Returned(t)
    ELSE IF n = 0 THEN Raised("ValueError")
    ELSE LET starts == PyRange(0, Len(t), n)
             lines == [k \in 1..Len(starts) |-> Slice(t, starts[k], starts[k] + n + 1)]
         IN  Returned(Join(SEPARATOR, lines))

\* process_text(text, threshold); range() raises ValueError on a zero step
process_text(t, n) ==
    IF Len(t) <= n THEN Returned(t)
    ELSE IF n = 0 THEN Raised("ValueError")
    ELSE LET starts == PyRange(0, Len(t), n)
             lines == [k \in 1..Len(starts) |-> Slice(t, starts[k], starts[k] + n)]
         IN  Returned(Join(SEPARATOR, lines))

\* ------------------------------------------------------------------------
\* Spreadsheet cells, sheets, workbooks
\* ------------------------------------------------------------------------

\* a data cell's value: None, a str (a sequence of characters) or an int
NoneCell == [t |-> "none", s |-> <<>>, n |-> 0]
StrCell(chars) == [t |-> "str", s |-> chars, n |-> 0]
IntCell(k) == [t |-> "int", s |-> <<>>, n |-> k]

Digit(d) == <<"0", "1", "2", "3", "4", "5", "6", "7", "8", "9">>[d + 1]

\* str(k) for an int k
RECURSIVE IntToStr(_)
IntToStr(k) ==
    IF k < 0 THEN <<"-">> \o IntToStr(0 - k)
    ELSE IF k < 10 THEN <<Digit(k)>>
    ELSE IntToStr(k \div 10) \o <<Digit(k % 10)>>

\* str(value)
PyStr(v) ==
    IF v.t = "str" THEN v.s
    ELSE IF v.t = "int" THEN IntToStr(v.n)
    ELSE <<"N", "o", "n", "e">>

\* str(value) if value is not None else ''
\* mutant: the None test is missing
CellText_no_none_test(v) == PyStr(v)

CellText(v) == IF v.t # "none" THEN PyStr(v) ELSE <<>>

\* the keys of REQUIRED_COLUMNS, in the order of the dictionary literal.  The
\* six column titles are named by the values the dictionary maps them to.
REQUIRED_COLUMNS ==
    <<"word", "phonetic", "morphology", "example", "example_def", "word_def">>

\* a header cell that holds None instead of a title
NoneHeader == "<None>"

\* a column title that is not required
ExtraHeader == "note"

Range(f) == { f[i] : i \in DOMAIN f }

\* load_workbook(path): the workbook, or an exception for a missing or
\* unreadable file
Unreadable == [readable |-> FALSE, sheetnames |-> <<>>, active |-> "", sheets |-> <<>>]

load_workbook(d, path) ==
    IF path \in DOMAIN d /\ d[path].readable
    THEN [raised |-> FALSE, wb |-> d[path]]
    ELSE [raised |-> TRUE, wb |-> Unreadable]

\* ------------------------------------------------------------------------
\* Spreadsheet reader
\* ------------------------------------------------------------------------

\* mutant of missing_columns: stops at the first absent column
missing_columns_first_only(headers) ==
    LET all == SelectSeq(REQUIRED_COLUMNS, LAMBDA col : col \notin Range(headers))
    IN  IF Len(all) = 0 THEN <<>> ELSE <<all[1]>>

\* mutant of missing_columns: the last required column is not looked for
missing_columns_skips_last(headers) ==
    SelectSeq(SubSeq(REQUIRED_COLUMNS, 1, Len(REQUIRED_COLUMNS) - 1),
              LAMBDA col : col \notin Range(headers))

\* [col for col in REQUIRED_COLUMNS if col not in headers]
missing_columns(headers) ==
    SelectSeq(REQUIRED_COLUMNS, LAMBDA col : col \notin Range(headers))

\* the dict built from one row: for i, value in enumerate(row), if
\* i < len(headers), row_dict[headers[i]] = text of value (a later column of the
\* same title overwrites an earlier one)
row_dict(headers, row) ==
    LET used == 1..Min(Len(row), Len(headers))
        last(h) == CHOOSE i \in used :
                       /\ headers[i] = h
                       /\ \A j \in used : headers[j] = h => j <= i
    IN  [h \in { headers[i] : i \in used } |-> CellText(row[last(h)])]

\* mutant of load_rows: iter_rows(min_row=1), the header row is read as data
load_rows_from_header(ws) ==
    [k \in 1..(Len(ws.rows) + 1) |->
        IF k = 1 THEN row_dict(ws.headers, [i \in 1..Len(ws.headers) |-> NoneCell])
        ELSE row_dict(ws.headers, ws.rows[k - 1])]

\* mutant of load_rows: rows are prepended, so the records come out reversed
load_rows_reversed(ws) ==
    [k \in 1..Len(ws.rows) |-> row_dict(ws.headers, ws.rows[Len(ws.rows) + 1 - k])]

\* the loop over ws.iter_rows(min_row=2, values_only=True): one record per data
\* row, in file order
load_rows(ws) ==
    [k \in 1..Len(ws.rows) |-> row_dict(ws.headers, ws.rows[k])]

\* ------------------------------------------------------------------------
\* Slide layout
\* ------------------------------------------------------------------------

\* the label texts, each written as one token
LABEL_MORPHOLOGY == <<"[morphology:]">>
LABEL_EXAMPLE == <<"[example:]">>
LABEL_EXAMPLE_DEF == <<"[example_def:]">>
LABEL_WORD_DEF == <<"[word_def:]">>

\* a text box: the region it is and the text of its paragraph
TextBox(region, chars) == [region |-> region, text |-> chars]

\* process_text(str(field)) with the default threshold
Wrapped(chars) == process_text(chars, TEXT_WRAP_THRESHOLD).value

add_word_textbox(word) == TextBox("word", word)
add_phonetic_textbox(phonetic) == TextBox("phonetic", phonetic)
add_morphology_textbox(morphology) ==
    TextBox("morphology", LABEL_MORPHOLOGY \o Wrapped(morphology))
add_example_textbox(example, example_def) ==
    TextBox("example",
            LABEL_EXAMPLE \o Wrapped(example) \o <<"\n">>
                \o LABEL_EXAMPLE_DEF \o Wrapped(example_def))
add_word_def_textbox(word_def) ==
    TextBox("word_def", LABEL_WORD_DEF \o Wrapped(word_def))

\* mutant of has_word_def: the definition box is always added
has_word_def_always(row) == TRUE

\* if row[word_def]: a str is true when it is not empty
has_word_def(row) == Len(row["word_def"]) > 0

\* generate_slide: the text boxes of the new slide, in the order they are added
generate_slide(row) ==
    <<add_word_textbox(row["word"]), add_phonetic_textbox(row["phonetic"]),
      add_morphology_textbox(row["morphology"]),
      add_example_textbox(row["example"], row["example_def"])>>
        \o (IF has_word_def(row) THEN <<add_word_def_textbox(row["word_def"])>>
            ELSE <<>>)

\* ------------------------------------------------------------------------
\* Deck builder: files, arguments, outcomes
\* ------------------------------------------------------------------------

\* an argument left at None
NoneArg == "<None>"

\* the defaults generate_ppt puts in place of None
INPUT_DEFAULT == "words.xlsx"
OUTPUT_DEFAULT == "words.pptx"

\* an input path whose file cannot be opened, an output path that cannot be written
BROKEN == "broken.xlsx"
LOCKED == "locked.pptx"

OutPaths == {OUTPUT_DEFAULT, LOCKED}

\* what is stored at an output path
Absent == [state |-> "absent", slides |-> <<>>]
Saved(deck) == [state |-> "saved", slides |-> deck]
Partial == [state |-> "partial", slides |-> <<>>]

\* create_presentation(): a deck without slides
create_presentation == <<>>

\* ppt.save(path): the exception is raised for a path that cannot be written;
\* what a failed save leaves at the path is up to the library
SaveFails(path) == path \notin OutPaths \/ path = LOCKED

\* how a function ended
Running == [kind |-> "running", value |-> 0, error |-> ""]
ReturnedInt(k) == [kind |-> "returned", value |-> k, error |-> ""]
RaisedError(e) == [kind |-> "raised", value |-> 0, error |-> e]
Exited(k) == [kind |-> "exited", value |-> k, error |-> ""]

\* the process: running, or exited with a status
Alive == [exited |-> FALSE, status |-> 0]
ExitedWith(k) == [exited |-> TRUE, status |-> k]

\* a printed or raised message
Msg(m) == [msg |-> m, n |-> 0, cols |-> <<>>]
MsgN(m, k) == [msg |-> m, n |-> k, cols |-> <<>>]
MsgCols(m, c) == [msg |-> m, n |-> 0, cols |-> c]

\* the keys generate_slide reads from a record
SlideKeys == Range(REQUIRED_COLUMNS)

\* mutant of ExitStatusAfterSave: a failed save ends the process with status 1
ExitStatusAfterSave_fails_on_save(saved) == IF saved THEN 0 ELSE 1

\* the status the process ends with when generate_ppt returns to main
ExitStatusAfterSave(saved) == 0

\* generate_ppt's except branch: the error is printed and 0 is returned
SaveFailureBatch == ReturnedInt(0)

\* mutant of SaveFailureSheet: the error is swallowed and 0 returned
SaveFailureSheet_returns_zero == ReturnedInt(0)

\* generate_ppt_from_sheet's except branch: a new exception is raised
SaveFailureSheet == RaisedError("save_error")

\* the form as __init__ leaves it; the status texts are named by what they say
NewForm ==
    [input_path_var |-> "",
     sheet_var |-> "",
     sheet_combo_values |-> <<>>,
     sheet_combo_state |-> "disabled",
     refresh_sheets_button_state |-> "disabled",
     output_path_var |-> OUTPUT_DEFAULT,
     status_var |-> "ready",
     current_workbook |-> NoneArg,
     current_sheet |-> NoneArg]

\* the message box the handler that ran last showed, if it showed one
NoDialog == [kind |-> "none", text |-> ""]
Dialog(kind, t) == [kind |-> kind, text |-> t]

\* ------------------------------------------------------------------------
\* Deck builder: the steps of one run
\* ------------------------------------------------------------------------

\* load_data(input_file), from generate_ppt: exits the process when the file
\* cannot be opened or a required column is missing
load_data ==
    /\ pc = "start"
    /\ call.mode = "batch"
    /\ LET input == IF call.input_file = NoneArg THEN INPUT_DEFAULT
                    ELSE call.input_file
           opened == load_workbook(disk, input)
           ws == opened.wb.sheets[opened.wb.active]
       IN  IF opened.raised
           THEN /\ stdout' = Append(stdout, Msg("read_error"))
                /\ outcome' = Exited(1)
                /\ proc' = ExitedWith(1)
                /\ pc' = "done"
                /\ UNCHANGED <<data, ppt, word_count>>
           ELSE IF Len(missing_columns(ws.headers)) > 0
           THEN /\ stdout' = Append(stdout,
                        MsgCols("missing_columns", missing_columns(ws.headers)))
                /\ outcome' = Exited(1)
                /\ proc' = ExitedWith(1)
                /\ pc' = "done"
                /\ UNCHANGED <<data, ppt, word_count>>
           ELSE /\ data' = load_rows(ws)
                /\ ppt' = create_presentation
                /\ word_count' = Len(load_rows(ws))
                /\ stdout' = Append(stdout, MsgN("start", Len(load_rows(ws))))
                /\ pc' = "slides"
                /\ UNCHANGED <<outcome, proc>>
    /\ index' = 0
    /\ UNCHANGED <<tvars, fsvars, call, gvars>>

\* load_data_from_sheet(input_file, sheet_name), from generate_ppt_from_sheet:
\* raises when the file cannot be opened, the sheet does not exist or a required
\* column is missing
load_data_from_sheet ==
    /\ pc = "start"
    /\ call.mode = "interactive"
    /\ LET opened == load_workbook(disk, call.input_file)
           found == ~opened.raised /\ call.sheet_name \in Range(opened.wb.sheetnames)
           ws == opened.wb.sheets[call.sheet_name]
       IN  IF ~found
           THEN /\ stdout' = Append(stdout, Msg("load_sheet_failed"))
                /\ outcome' = RaisedError("load_sheet_failed")
                /\ pc' = "done"
                /\ UNCHANGED <<data, ppt, word_count>>
           ELSE IF Len(missing_columns(ws.headers)) > 0
           THEN /\ stdout' = Append(stdout,
                        MsgCols("missing_columns", missing_columns(ws.headers)))
                /\ outcome' = RaisedError("missing_columns")
                /\ pc' = "done"
                /\ UNCHANGED <<data, ppt, word_count>>
           ELSE /\ data' = load_rows(ws)
                /\ ppt' = create_presentation
                /\ word_count' = Len(load_rows(ws))
                /\ pc' = "slides"
                /\ UNCHANGED <<outcome, stdout>>
    /\ index' = 0
    /\ UNCHANGED <<tvars, fsvars, call, proc, gvars>>

\* one turn of "for index, row in enumerate(data)": the progress line (batch
\* mode only) and generate_slide(ppt, row).  A record without one of the keys
\* generate_slide reads raises KeyError, which nothing catches.
slide_step ==
    /\ pc = "slides"
    /\ index < Len(data)
    /\ LET row == data[index + 1]
           progress == call.mode = "batch"
                         /\ ((index + 1) % 10 = 0 \/ index + 1 = word_count)
           printed == IF progress THEN Append(stdout, MsgN("progress", index + 1))
                      ELSE stdout
       IN  IF SlideKeys \subseteq DOMAIN row
           THEN /\ ppt' = Append(ppt, generate_slide(row))
                /\ index' = index + 1
                /\ stdout' = printed
                /\ UNCHANGED <<pc, outcome, proc>>
           ELSE /\ outcome' = RaisedError("KeyError")
                /\ proc' = IF call.mode = "batch" THEN ExitedWith(1) ELSE proc
                /\ stdout' = printed
                /\ pc' = "done"
                /\ UNCHANGED <<ppt, index>>
    /\ UNCHANGED <<tvars, disk, written, call, data, word_count, gvars>>

\* the end of generate_ppt: ppt.save(output_file) in try/except; main has
\* nothing left to do after it, so the process ends
save_batch ==
    /\ pc = "slides"
    /\ index >= Len(data)
    /\ call.mode = "batch"
    /\ LET output == IF call.output_file = NoneArg THEN OUTPUT_DEFAULT
                     ELSE call.output_file
       IN  IF SaveFails(output)
           THEN /\ \E left \in {Partial} \cup {written[p] : p \in {output} \cap OutPaths} :
                      written' = [p \in OutPaths |-> IF p = output THEN left ELSE written[p]]
                /\ stdout' = Append(stdout, Msg("save_error"))
                /\ outcome' = SaveFailureBatch
                /\ proc' = IF SaveFailureBatch.kind = "returned"
                           THEN ExitedWith(ExitStatusAfterSave(FALSE))
                           ELSE ExitedWith(1)
           ELSE /\ written' = [written EXCEPT ![output] = Saved(ppt)]
                /\ stdout' = stdout \o <<Msg("saved"), MsgN("processed", word_count)>>
                /\ outcome' = ReturnedInt(word_count)
                /\ proc' = ExitedWith(ExitStatusAfterSave(TRUE))
    /\ pc' = "done"
    /\ UNCHANGED <<tvars, disk, call, data, ppt, index, word_count, gvars>>

\* the end of generate_ppt_from_sheet: ppt.save(output_file) in try/except
save_sheet ==
    /\ pc = "slides"
    /\ index >= Len(data)
    /\ call.mode = "interactive"
    /\ IF SaveFails(call.output_file)
       THEN /\ \E left \in {Partial}
                    \cup {written[p] : p \in {call.output_file} \cap OutPaths} :
                  written' = [p \in OutPaths |->
                                 IF p = call.output_file THEN left ELSE written[p]]
            /\ stdout' = Append(stdout, Msg("save_error"))
            /\ outcome' = SaveFailureSheet
       ELSE /\ written' = [written EXCEPT ![call.output_file] = Saved(ppt)]
            /\ outcome' = ReturnedInt(word_count)
            /\ UNCHANGED stdout
    /\ pc' = "done"
    /\ UNCHANGED <<tvars, disk, call, data, ppt, index, word_count, proc, gvars>>

\* ------------------------------------------------------------------------
\* Deck builder: the sheets and calls tried
\* ------------------------------------------------------------------------

Reverse(s) == [i \in 1..Len(s) |-> s[Len(s) + 1 - i]]

\* the header rows tried: any subset of the required titles, in the documented
\* order, or reversed behind an extra column, or followed by an empty header cell
HeaderVariants == {"plain", "reversed_extra", "none_cell"}

HeaderRow(S, variant) ==
    LET base == SelectSeq(REQUIRED_COLUMNS, LAMBDA col : col \in S)
    IN  IF variant = "reversed_extra" THEN <<ExtraHeader>> \o Reverse(base)
        ELSE IF variant = "none_cell" \/ Len(base) = 0 THEN base \o <<NoneHeader>>
        ELSE base

HeaderRows ==
    { HeaderRow(S, v) : S \in SUBSET Range(REQUIRED_COLUMNS), v \in HeaderVariants }

\* a morphology note one character longer than the wrap threshold
LongText == [i \in 1..(TEXT_WRAP_THRESHOLD + 1) |-> "m"]

\* the data rows tried, by kind: the cell under each column
RowKinds == {"apple", "cat", "seven", "blank"}

CellOf(kind, col) ==
    IF col = NoneHeader \/ (kind = "blank" /\ col # "word_def") THEN NoneCell
    ELSE IF col = "word" THEN
        (IF kind = "apple" THEN StrCell(<<"a", "p", "p", "l", "e">>)
         ELSE IF kind = "cat" THEN StrCell(<<"c", "a", "t">>)
         ELSE IntCell(7))
    ELSE IF col = "word_def" THEN
        (IF kind = "apple" THEN StrCell(<<"f", "r", "u", "i", "t">>)
         ELSE IF kind = "cat" THEN NoneCell
         ELSE IF kind = "seven" THEN IntCell(0)
         ELSE StrCell(<<>>))
    ELSE IF col = "morphology" THEN
        (IF kind = "cat" THEN StrCell(LongText) ELSE StrCell(<<"a", "-", "b">>))
    ELSE IF col = "phonetic" THEN StrCell(<<"/", "x", "/">>)
    ELSE IF col = "example" THEN StrCell(<<"A", " ", "b", ".">>)
    ELSE IF col = "example_def" THEN StrCell(<<"t", "r">>)
    ELSE StrCell(<<"n">>)

DataRow(kind, headers) == [i \in 1..Len(headers) |-> CellOf(kind, headers[i])]

\* most data rows of a sheet
MaxRows == 2

RowKindSeqs == UNION { [1..n -> RowKinds] : n \in 0..MaxRows }

SheetOf(headers, kinds) ==
    [headers |-> headers, rows |-> [k \in 1..Len(kinds) |-> DataRow(kinds[k], headers)]]

Sheets == { SheetOf(h, kinds) : h \in HeaderRows, kinds \in RowKindSeqs }

\* the sheet the template generator writes, cut to two rows
TemplateSheet == SheetOf(REQUIRED_COLUMNS, <<"apple", "cat">>)

\* a workbook with one sheet, which is the active one
SHEET_NAME == "Sheet1"
NO_SUCH_SHEET == "Sheet9"

OneSheetWorkbook(sheet) ==
    [readable |-> TRUE, sheetnames |-> <<SHEET_NAME>>, active |-> SHEET_NAME,
     sheets |-> (SHEET_NAME :> sheet)]

DiskWith(sheet) == (INPUT_DEFAULT :> OneSheetWorkbook(sheet)) @@ (BROKEN :> Unreadable)

\* main in batch mode: generate_ppt(args.input, args.output)
BatchCalls ==
    { [mode |-> "batch", caller |-> "main", input_file |-> i, output_file |-> o,
       sheet_name |-> NoneArg] : i \in {NoneArg, BROKEN}, o \in {NoneArg, LOCKED} }

\* generate_ppt_from_sheet(input_file, output_file, sheet_name)
SheetCalls ==
    { [mode |-> "interactive", caller |-> "direct", input_file |-> i,
       output_file |-> o, sheet_name |-> n] :
        i \in {INPUT_DEFAULT, BROKEN}, o \in {OUTPUT_DEFAULT, LOCKED},
        n \in {SHEET_NAME, NO_SUCH_SHEET} }

\* the call reads the sheet of the workbook at INPUT_DEFAULT
ReadsSheet(c) ==
    /\ c.input_file \in {NoneArg, INPUT_DEFAULT}
    /\ c.sheet_name \in {NoneArg, SHEET_NAME}

NoCall ==
    [mode |-> "none", caller |-> "none", input_file |-> NoneArg,
     output_file |-> NoneArg, sheet_name |-> NoneArg]

\* the text harness at rest
IdleText ==
    /\ text = <<>>
    /\ threshold = TEXT_WRAP_THRESHOLD
    /\ result = NoResult
    /\ result2 = NoResult
    /\ tpc = "off"

\* no run of the deck builder under way
IdleBuild ==
    /\ call = NoCall
    /\ pc = "off"
    /\ data = <<>>
    /\ ppt = <<>>
    /\ index = 0
    /\ word_count = 0
    /\ outcome = Running
    /\ stdout = <<>>
    /\ proc = Alive

\* no form: batch mode, or the builder called on its own
NoForm ==
    /\ gui = NewForm
    /\ shown = NoDialog
    /\ escaped = FALSE

\* one run of the deck builder on one workbook.  A call that never gets to
\* the sheet (unreadable file, unknown sheet name) is tried with the template
\* sheet only: what the sheet holds cannot matter to it.
Init ==
    /\ IdleText
    /\ \E sheet \in Sheets, c \in BatchCalls \cup SheetCalls :
          /\ ReadsSheet(c) \/ sheet = TemplateSheet
          /\ disk = DiskWith(sheet)
          /\ call = c
    /\ written = [p \in OutPaths |-> Absent]
    /\ pc = "start"
    /\ data = <<>>
    /\ ppt = <<>>
    /\ index = 0
    /\ word_count = 0
    /\ outcome = Running
    /\ stdout = <<>>
    /\ proc = Alive
    /\ NoForm

Next ==
    \/ load_data
    \/ load_data_from_sheet
    \/ slide_step
    \/ save_batch
    \/ save_sheet

Spec == Init /\ [][Next]_vars

\* ------------------------------------------------------------------------
\* Interactive mode: the form (PPTGeneratorGUI)
\* ------------------------------------------------------------------------

\* the workbook of the interactive session, with a complete sheet, a sheet
\* without data rows and a sheet that lacks columns; beside it, a file that
\* cannot be opened
SHEET_EMPTY == "Sheet2"
SHEET_INCOMPLETE == "Sheet3"

FormDisk ==
    (INPUT_DEFAULT :>
        [readable |-> TRUE,
         sheetnames |-> <<SHEET_NAME, SHEET_EMPTY, SHEET_INCOMPLETE>>,
         active |-> SHEET_NAME,
         sheets |-> (SHEET_NAME :> TemplateSheet)
                    @@ (SHEET_EMPTY :> SheetOf(REQUIRED_COLUMNS, <<>>))
                    @@ (SHEET_INCOMPLETE :>
                           SheetOf(HeaderRow({"word", "phonetic"}, "plain"), <<"apple">>))])
    @@ (BROKEN :> Unreadable)

\* what the file dialogs can return ("" when cancelled) and what can be typed
InputChoices == {"", INPUT_DEFAULT, BROKEN}
OutputChoices == {"", OUTPUT_DEFAULT, LOCKED}
SheetChoices == {"", SHEET_NAME, SHEET_EMPTY, SHEET_INCOMPLETE, NO_SUCH_SHEET}

\* browse_input_file: the file dialog returns file_path
browse_input_file(file_path) ==
    /\ pc = "idle"
    /\ IF file_path = ""
       THEN /\ UNCHANGED gui
            /\ shown' = NoDialog
       ELSE LET opened == load_workbook(disk, file_path)
                names == opened.wb.sheetnames
            IN  IF ~opened.raised
                THEN /\ gui' = [gui EXCEPT
                           !.input_path_var = file_path,
                           !.current_workbook = file_path,
                           !.sheet_combo_values = names,
                           !.sheet_var = IF Len(names) > 0 THEN names[1] ELSE @,
                           !.current_sheet = IF Len(names) > 0 THEN names[1] ELSE @,
                           !.sheet_combo_state = "normal",
                           !.refresh_sheets_button_state = "normal",
                           !.status_var = "file_loaded"]
                     /\ shown' = NoDialog
                ELSE /\ gui' = [gui EXCEPT
                           !.input_path_var = file_path,
                           !.status_var = "load_failed",
                           !.sheet_combo_state = "disabled",
                           !.refresh_sheets_button_state = "disabled"]
                     /\ shown' = Dialog("showerror", "load_failed")
    /\ UNCHANGED <<tvars, fsvars, bvars, escaped>>

\* browse_output_file: the file dialog returns file_path
browse_output_file(file_path) ==
    /\ pc = "idle"
    /\ gui' = IF file_path = "" THEN gui
              ELSE [gui EXCEPT !.output_path_var = file_path,
                               !.status_var = "output_set"]
    /\ shown' = NoDialog
    /\ UNCHANGED <<tvars, fsvars, bvars, escaped>>

\* refresh_sheets: the button can be pressed once a workbook was loaded
refresh_sheets ==
    /\ pc = "idle"
    /\ gui.refresh_sheets_button_state = "normal"
    /\ IF gui.input_path_var = ""
       THEN /\ UNCHANGED gui
            /\ shown' = Dialog("showwarning", "no_input")
       ELSE LET opened == load_workbook(disk, gui.input_path_var)
                names == opened.wb.sheetnames
            IN  IF ~opened.raised
                THEN /\ gui' = [gui EXCEPT
                           !.current_workbook = gui.input_path_var,
                           !.sheet_combo_values = names,
                           !.sheet_var = IF Len(names) > 0 THEN names[1] ELSE @,
                           !.current_sheet = IF Len(names) > 0 THEN names[1] ELSE @,
                           !.status_var = "sheets_refreshed"]
                     /\ shown' = NoDialog
                ELSE /\ gui' = [gui EXCEPT !.status_var = "refresh_failed"]
                     /\ shown' = Dialog("showerror", "refresh_failed")
    /\ UNCHANGED <<tvars, fsvars, bvars, escaped>>

\* the user types into the input entry, which is bound to input_path_var
edit_input_entry(path) ==
    /\ pc = "idle"
    /\ path # gui.input_path_var
    /\ gui' = [gui EXCEPT !.input_path_var = path]
    /\ UNCHANGED <<tvars, fsvars, bvars, shown, escaped>>

\* the user types into the output entry, which is bound to output_path_var
edit_output_entry(path) ==
    /\ pc = "idle"
    /\ path # gui.output_path_var
    /\ gui' = [gui EXCEPT !.output_path_var = path]
    /\ UNCHANGED <<tvars, fsvars, bvars, shown, escaped>>

\* the user picks or types a sheet name in the combobox, which is bound to
\* sheet_var and takes input while its state is normal
edit_sheet_combo(name) ==
    /\ pc = "idle"
    /\ gui.sheet_combo_state = "normal"
    /\ name # gui.sheet_var
    /\ gui' = [gui EXCEPT !.sheet_var = name]
    /\ UNCHANGED <<tvars, fsvars, bvars, shown, escaped>>

\* open_template: the template is shown, or created and shown, or that fails;
\* which of the three depends on files and programs outside the model
open_template ==
    /\ pc = "idle"
    /\ \E how \in {"template_opened", "template_created", "template_failed"} :
          /\ gui' = [gui EXCEPT !.status_var = how]
          /\ shown' = IF how = "template_failed"
                      THEN Dialog("showerror", how)
                      ELSE NoDialog
    /\ UNCHANGED <<tvars, fsvars, bvars, escaped>>

\* generate, up to the call of generate_ppt_from_sheet: the three early
\* returns, then the status line and the call
generate ==
    /\ pc = "idle"
    /\ IF gui.input_path_var = ""
       THEN /\ shown' = Dialog("showwarning", "no_input")
            /\ UNCHANGED <<gui, pc, call>>
       ELSE IF gui.sheet_var = ""
       THEN /\ shown' = Dialog("showwarning", "no_sheet")
            /\ UNCHANGED <<gui, pc, call>>
       ELSE IF gui.output_path_var = ""
       THEN /\ shown' = Dialog("showwarning", "no_output")
            /\ UNCHANGED <<gui, pc, call>>
       ELSE /\ gui' = [gui EXCEPT !.status_var = "generating"]
            /\ shown' = NoDialog
            /\ call' = [mode |-> "interactive", caller |-> "form",
                        input_file |-> gui.input_path_var,
                        output_file |-> gui.output_path_var,
                        sheet_name |-> gui.sheet_var]
            /\ pc' = "start"
    /\ UNCHANGED <<tvars, fsvars, data, ppt, index, word_count, outcome, stdout,
                   proc, escaped>>

\* mutant of generate_catches: the handler catches everything but a save error
generate_catches_not_save(error) == error # "save_error"

\* "except Exception" in generate: every exception the builder raises is caught
generate_catches(error) == TRUE

\* mutant of generate_status_on_error: the status line is left as it is
generate_status_on_error_unchanged(status) == status

\* the status line generate sets in its except branch
generate_status_on_error(status) == "generate_error"

\* generate, from the return of generate_ppt_from_sheet: the success box, the
\* warning for a count of 0, or the error box for an exception
generate_finish ==
    /\ pc = "done"
    /\ call.caller = "form"
    /\ IF outcome.kind = "returned" /\ outcome.value > 0
       THEN /\ shown' = Dialog("showinfo", "success")
            /\ gui' = [gui EXCEPT !.status_var = "generate_succeeded"]
            /\ UNCHANGED escaped
       ELSE IF outcome.kind = "returned"
       THEN /\ shown' = Dialog("showwarning", "generate_failed")
            /\ gui' = [gui EXCEPT !.status_var = "generate_failed"]
            /\ UNCHANGED escaped
       ELSE IF generate_catches(outcome.error)
       THEN /\ shown' = Dialog("showerror", outcome.error)
            /\ gui' = [gui EXCEPT !.status_var = generate_status_on_error(@)]
            /\ UNCHANGED escaped
       ELSE /\ escaped' = TRUE
            /\ UNCHANGED <<gui, shown>>
    /\ pc' = "idle"
    \* the locals of generate and of the builder end with the call
    /\ call' = NoCall
    /\ data' = <<>>
    /\ ppt' = <<>>
    /\ index' = 0
    /\ word_count' = 0
    /\ outcome' = Running
    /\ stdout' = <<>>
    /\ UNCHANGED <<tvars, fsvars, proc>>

\* an interactive session: the form after __init__, no file written yet
InitGUI ==
    /\ IdleText
    /\ disk = FormDisk
    /\ written = [p \in OutPaths |-> Absent]
    /\ call = NoCall
    /\ pc = "idle"
    /\ data = <<>>
    /\ ppt = <<>>
    /\ index = 0
    /\ word_count = 0
    /\ outcome = Running
    /\ stdout = <<>>
    /\ proc = Alive
    /\ gui = NewForm
    /\ shown = NoDialog
    /\ escaped = FALSE

NextGUI ==
    \/ \E file_path \in InputChoices : browse_input_file(file_path)
    \/ \E file_path \in OutputChoices : browse_output_file(file_path)
    \/ refresh_sheets
    \/ \E path \in InputChoices : edit_input_entry(path)
    \/ \E path \in OutputChoices : edit_output_entry(path)
    \/ \E name \in SheetChoices : edit_sheet_combo(name)
    \/ open_template
    \/ generate
    \/ load_data_from_sheet
    \/ slide_step
    \/ save_sheet
    \/ generate_finish

SpecGUI == InitGUI /\ [][NextGUI]_vars

\* a session driven through the buttons only (the two browse buttons, the
\* refresh button and the generate button), nothing typed into the entries
NextSession ==
    \/ \E file_path \in InputChoices : browse_input_file(file_path)
    \/ \E file_path \in OutputChoices : browse_output_file(file_path)
    \/ refresh_sheets
    \/ generate
    \/ load_data_from_sheet
    \/ slide_step
    \/ save_sheet
    \/ generate_finish

SpecSession == InitGUI /\ [][NextSession]_vars

\* ------------------------------------------------------------------------
\* Text wrapper harness: inputs
\* ------------------------------------------------------------------------

\* the characters of the free parts of an input text
Chars == {"a", " ", "\n"}

\* the free part before the block of spaces
FreeTexts == UNION { [1..n -> Chars] : n \in 0..MaxFree }

\* the free part after the block of spaces
Suffixes == { <<>> } \cup { <<c>> : c \in Chars }

\* the block of spaces in the middle of an input text: none, one short of the
\* indentation, the indentation, or a default threshold's worth of spaces
Blocks == { <<>>, Spaces(INDENT_WIDTH - 1), Spaces(INDENT_WIDTH),
            Spaces(TEXT_WRAP_THRESHOLD) }

Texts == { p \o m \o q : p \in FreeTexts, m \in Blocks, q \in Suffixes }

\* thresholds tried: non-positive and small ones, the first two that let a chunk
\* hold a whole separator, and the default
Thresholds ==
    ((0 - 1)..MaxThreshold)
        \cup { INDENT_WIDTH + 1, INDENT_WIDTH + 2, TEXT_WRAP_THRESHOLD }

InitText ==
    /\ text \in Texts
    /\ threshold \in Thresholds
    /\ result = NoResult
    /\ result2 = NoResult
    /\ tpc = "start"
    /\ disk = DiskWith(TemplateSheet)
    /\ written = [p \in OutPaths |-> Absent]
    /\ IdleBuild
    /\ NoForm

\* result = process_text(text, threshold)
Wrap ==
    /\ tpc = "start"
    /\ result' = process_text(text, threshold)
    /\ tpc' = "wrapped"
    /\ UNCHANGED <<text, threshold, result2, fsvars, bvars, gvars>>

\* result2 = process_text(result, threshold)
Rewrap ==
    /\ tpc = "wrapped"
    /\ ~result.raised
    /\ result2' = process_text(result.value, threshold)
    /\ tpc' = "rewrapped"
    /\ UNCHANGED <<text, threshold, result, fsvars, bvars, gvars>>

NextText == Wrap \/ Rewrap

SpecText == InitText /\ [][NextText]_vars

\* ------------------------------------------------------------------------
\* Claims about the text wrapper (checked under SpecText)
\* ------------------------------------------------------------------------

\* sep occurs in s at position i (1-based)
OccursAt(s, sep, i) ==
    /\ i + Len(sep) - 1 <= Len(s)
    /\ \A k \in 1..Len(sep) : s[i + k - 1] = sep[k]

Contains(s, sep) == \E i \in 1..Len(s) : OccursAt(s, sep, i)

\* s.split(SEPARATOR): the chunks between the occurrences of the separator
\* (a newline is not a space, so two occurrences never overlap)
SplitAtSeparator(s) ==
    LET M == { i \in 1..Len(s) : OccursAt(s, SEPARATOR, i) }
        n == Cardinality(M)
        nth(j) == CHOOSE i \in M : Cardinality({ k \in M : k <= i }) = j
        first(j) == IF j = 1 THEN 1 ELSE nth(j - 1) + Len(SEPARATOR)
        last(j) == IF j = n + 1 THEN Len(s) ELSE nth(j) - 1
    IN  [j \in 1..(n + 1) |-> SubSeq(s, first(j), last(j))]

\* the chunks of a wrapped text, concatenated without the separators
Rejoined(s) == Join(<<>>, SplitAtSeparator(s))

\* C5: a text no longer than the threshold (the empty text and a text of exactly
\* threshold characters included) is returned unchanged, and wrapping the result
\* again returns it unchanged again.
C5_ShortTextUnchanged ==
    Len(text) <= threshold =>
        /\ tpc # "start" => ~result.raised /\ result.value = text
        /\ tpc = "rewrapped" => ~result2.raised /\ result2.value = result.value

\* C5 witness: a non-empty text of exactly threshold characters was wrapped twice.
C5_Witness ==
    /\ tpc = "rewrapped"
    /\ Len(text) = threshold
    /\ Len(text) > 0
    /\ result2.value = text

\* the empty text at threshold 0 was wrapped and returned as it is
C5_WitnessEmpty ==
    /\ tpc = "wrapped"
    /\ text = <<>>
    /\ threshold = 0
    /\ ~result.raised

\* C6 as stated: for every text longer than the (positive) threshold, whatever
\* it contains, the chunks of the wrapped text concatenate to the text.
C6_RejoinAnyContent ==
    (tpc # "start" /\ threshold >= 1 /\ Len(text) > threshold) =>
        ~result.raised /\ Rejoined(result.value) = text

\* the chunks process_text cuts t into: consecutive slices of n characters
ChunksOf(t, n) ==
    [k \in 1..(((Len(t) - 1) \div n) + 1) |-> Slice(t, (k - 1) * n, k * n)]

\* C6 amended: for every text longer than the positive threshold, the chunks of
\* the wrapped text concatenate to the text exactly when no chunk contains the
\* separator (a newline followed by the 18 spaces); in particular they do for
\* every text that does not contain the separator.
C6_RejoinWithoutSeparator ==
    (tpc # "start" /\ threshold >= 1 /\ Len(text) > threshold) =>
        /\ ~result.raised
        /\ (Rejoined(result.value) = text) <=>
               (\A k \in 1..Len(ChunksOf(text, threshold)) :
                    ~Contains(ChunksOf(text, threshold)[k], SEPARATOR))
        /\ ~Contains(text, SEPARATOR) => Rejoined(result.value) = text

\* C6 witness: a text with a newline and spaces in it, but not the separator,
\* was split into several chunks that concatenate to it.
C6_Witness ==
    /\ tpc = "wrapped"
    /\ threshold >= 1
    /\ Len(text) > threshold
    /\ ~Contains(text, SEPARATOR)
    /\ \E i \in 1..Len(text) : text[i] = "\n"
    /\ \E i \in 1..Len(text) : text[i] = " "
    /\ Len(SplitAtSeparator(result.value)) >= 3
    /\ Rejoined(result.value) = text

\* ------------------------------------------------------------------------
\* Claims about the reader and the deck builder (checked under Spec)
\* ------------------------------------------------------------------------

\* the sheet of the workbook at INPUT_DEFAULT
TheSheet == disk[INPUT_DEFAULT].sheets[SHEET_NAME]

\* the required titles the header row lacks
AbsentTitles == Range(REQUIRED_COLUMNS) \ Range(TheSheet.headers)

\* the run reads a sheet whose header row has all six required titles
ReadsCompleteSheet == ReadsSheet(call) /\ AbsentTitles = {}

\* the run reads a sheet whose header row lacks a required title
ReadsIncompleteSheet == ReadsSheet(call) /\ AbsentTitles # {}

\* the output path of the run
OutputPath ==
    IF call.output_file = NoneArg THEN OUTPUT_DEFAULT ELSE call.output_file

LastMsg == IF Len(stdout) = 0 THEN Msg("") ELSE stdout[Len(stdout)]

\* the run got to ppt.save and the save failed
SaveFailed == pc = "done" /\ LastMsg.msg = "save_error"

\* the regions of a slide, in the order its text boxes were added
Regions(slide) == [i \in 1..Len(slide) |-> slide[i].region]

\* the text of a cell as a record holds it: '' for None, else its str()
ValueOf(cell) ==
    IF cell.t = "str" THEN cell.s
    ELSE IF cell.t = "int" THEN IntToStr(cell.n)
    ELSE <<>>

\* the value of row k of the sheet under the column of the given title
RowValue(k, title) ==
    LET i == CHOOSE j \in 1..Len(TheSheet.headers) : TheSheet.headers[j] = title
    IN  ValueOf(TheSheet.rows[k][i])

\* C1: a completed build over a sheet with all six required columns and n data
\* rows leaves a deck of exactly n slides, and when the save succeeds the count
\* returned is n and the stored deck has n slides.
C1_SlideCountEqualsRows ==
    (pc = "done" /\ ReadsCompleteSheet) =>
        /\ Len(ppt) = Len(TheSheet.rows)
        /\ ~SaveFailed =>
              /\ outcome = ReturnedInt(Len(TheSheet.rows))
              /\ written[OutputPath].state = "saved"
              /\ Len(written[OutputPath].slides) = Len(TheSheet.rows)

\* C1 witness: an interactive build over MaxRows data rows was saved.
C1_Witness ==
    /\ pc = "done"
    /\ call.mode = "interactive"
    /\ ReadsCompleteSheet
    /\ Len(TheSheet.rows) = MaxRows
    /\ outcome = ReturnedInt(MaxRows)
    /\ Len(written[OutputPath].slides) = MaxRows

\* C2: at every point of a run the slides of the deck are built from a prefix of
\* the data rows in file order: slide k holds, in its word region, the word of
\* data row k, and in its phonetic region the phonetic field of data row k.
C2_SlidesFollowRowOrder ==
    ReadsCompleteSheet =>
        /\ Len(ppt) <= Len(TheSheet.rows)
        /\ Len(ppt) = index
        /\ \A k \in 1..Len(ppt) :
              /\ ppt[k][1].region = "word"
              /\ ppt[k][1].text = RowValue(k, "word")
              /\ ppt[k][2].text = RowValue(k, "phonetic")
        /\ \A p \in OutPaths : written[p].state = "saved" => written[p].slides = ppt

\* C2 witness: a deck of two slides with different words, from a sheet whose
\* columns are not in the documented order.
C2_Witness ==
    /\ pc = "done"
    /\ ReadsCompleteSheet
    /\ TheSheet.headers[1] # "word"
    /\ Len(ppt) >= 2
    /\ ppt[1][1].text # ppt[2][1].text
    /\ ppt[1][1].text = RowValue(1, "word")

\* C3: a run over a sheet whose header row lacks a required column creates no
\* slide and writes no output file, and ends in a failure, in both modes and
\* whatever the number of data rows.
C3_MissingColumnAborts ==
    ReadsIncompleteSheet =>
        /\ ppt = <<>>
        /\ \A p \in OutPaths : written[p] = Absent
        /\ pc = "done" =>
              /\ call.mode = "batch" => outcome = Exited(1)
              /\ call.mode = "interactive" => outcome = RaisedError("missing_columns")

\* C3 witness: an interactive run over data rows under an incomplete header row
\* has ended.
C3_Witness ==
    /\ pc = "done"
    /\ call.mode = "interactive"
    /\ ReadsIncompleteSheet
    /\ Cardinality(AbsentTitles) = 1
    /\ Len(TheSheet.rows) > 0
    /\ outcome.kind = "raised"

\* the same in batch mode
C3_WitnessBatch ==
    /\ pc = "done"
    /\ call.mode = "batch"
    /\ ReadsIncompleteSheet
    /\ Len(TheSheet.rows) > 0
    /\ outcome.kind = "exited"

\* C4: the missing-columns failure names exactly the required columns absent
\* from the header row, whatever the order of the headers and the extra columns,
\* and it is reported exactly when one is absent.
C4_ReportsExactlyAbsentColumns ==
    (pc = "done" /\ ReadsSheet(call)) =>
        /\ AbsentTitles # {} <=> LastMsg.msg = "missing_columns"
        /\ LastMsg.msg = "missing_columns" => Range(LastMsg.cols) = AbsentTitles

\* C4 witness: two columns are absent from a header row that starts with an
\* extra column, and both are reported.
C4_Witness ==
    /\ pc = "done"
    /\ ReadsSheet(call)
    /\ TheSheet.headers[1] = ExtraHeader
    /\ Cardinality(AbsentTitles) = 2
    /\ LastMsg.msg = "missing_columns"
    /\ Len(LastMsg.cols) = 2

\* C7: a slide has the definition region exactly when the record's word_def
\* value is a non-empty str: four regions (word, phonetic, morphology, example)
\* for an empty value, these and the definition region for a non-empty one.
C7_DefinitionRegionIffNonEmpty ==
    \A k \in 1..Len(ppt) :
        Regions(ppt[k]) =
            IF data[k]["word_def"] = <<>>
            THEN <<"word", "phonetic", "morphology", "example">>
            ELSE <<"word", "phonetic", "morphology", "example", "word_def">>

\* C7 witness: a deck with a four-region slide for an empty definition and a
\* five-region slide for a non-empty one.
C7_Witness ==
    /\ Len(ppt) = 2
    /\ data[1]["word_def"] = <<>>
    /\ Len(ppt[1]) = 4
    /\ data[2]["word_def"] # <<>>
    /\ Len(ppt[2]) = 5

\* C8: a batch run ends the process with status 1 exactly when the workbook
\* cannot be opened or a required column is missing, and with status 0
\* otherwise (no data rows and a failed save included).
C8_BatchExitStatus ==
    (call.mode = "batch" /\ pc = "done") =>
        /\ proc.exited
        /\ proc.status \in {0, 1}
        /\ proc.status = 1 <=> (call.input_file = BROKEN \/ ReadsIncompleteSheet)

\* C8 witness: a batch run whose save failed ended with status 0.
C8_Witness ==
    /\ call.mode = "batch"
    /\ SaveFailed
    /\ proc = ExitedWith(0)

\* a batch run over a sheet without data rows ended with status 0
C8_WitnessNoRows ==
    /\ call.mode = "batch"
    /\ pc = "done"
    /\ ReadsCompleteSheet
    /\ Len(TheSheet.rows) = 0
    /\ proc = ExitedWith(0)

\* C9 as stated: when the save fails the deck builder fails with a save error
\* that reaches its caller, in batch mode and in interactive mode.
C9_SaveFailureRaises ==
    SaveFailed => outcome = RaisedError("save_error")

\* C9 amended: when the save fails, generate_ppt_from_sheet (interactive mode)
\* raises a save error to its caller; generate_ppt (batch mode) prints the error
\* and returns 0, and the process ends with status 0.
C9_SaveFailureByMode ==
    SaveFailed =>
        /\ call.mode = "interactive" => outcome = RaisedError("save_error")
        /\ call.mode = "batch" => outcome = ReturnedInt(0) /\ proc = ExitedWith(0)
        /\ written[OutputPath].state # "saved"

\* C9 witness: the save of an interactive build with slides failed.
C9_Witness ==
    /\ SaveFailed
    /\ call.mode = "interactive"
    /\ Len(ppt) > 0
    /\ outcome.kind = "raised"

\* ------------------------------------------------------------------------
\* Claims about the form (checked under SpecGUI)
\* ------------------------------------------------------------------------

\* the step that ends a generate action whose builder raised an exception
GenerateFailureHandled ==
    (pc = "done" /\ pc' = "idle" /\ outcome.kind = "raised") =>
        /\ shown' = Dialog("showerror", outcome.error)
        /\ gui' = [gui EXCEPT !.status_var = "generate_error"]

\* C10: in interactive mode no exception escapes a handler, the status line does
\* not read 'generating' once a generate action has finished, and every failure
\* of the builder (workbook unreadable, sheet not found, missing columns, save
\* failure) ends the generate action with an error box that carries the failure
\* and the failure status line, the rest of the form left as it was.
C10_FailuresHandledByForm ==
    /\ [](~escaped /\ (pc = "idle" => gui.status_var # "generating"))
    /\ [][GenerateFailureHandled]_vars

\* C10 witness: a generate action whose save failed has ended with the error
\* box and the failure status line.
C10_Witness ==
    /\ pc = "idle"
    /\ ~escaped
    /\ shown = Dialog("showerror", "save_error")
    /\ gui.status_var = "generate_error"
    /\ gui.output_path_var = LOCKED

\* the same for a missing column, an unknown sheet name and an unreadable file
C10_WitnessMissingColumns ==
    /\ pc = "idle"
    /\ shown = Dialog("showerror", "missing_columns")
    /\ gui.status_var = "generate_error"
    /\ gui.sheet_var = SHEET_INCOMPLETE

C10_WitnessNoSuchSheet ==
    /\ pc = "idle"
    /\ shown = Dialog("showerror", "load_sheet_failed")
    /\ gui.status_var = "generate_error"
    /\ gui.input_path_var = INPUT_DEFAULT
    /\ gui.sheet_var = NO_SUCH_SHEET

C10_WitnessUnreadable ==
    /\ pc = "idle"
    /\ shown = Dialog("showerror", "load_sheet_failed")
    /\ gui.status_var = "generate_error"
    /\ gui.input_path_var = BROKEN

\* ------------------------------------------------------------------------
\* Claims about a session of button presses (checked under SpecSession)
\* ------------------------------------------------------------------------

\* the sheet list the form shows was loaded from the file the input field names
SheetListOfSelectedFile ==
    /\ gui.current_workbook = gui.input_path_var
    /\ load_workbook(disk, gui.input_path_var).raised = FALSE
    /\ gui.sheet_combo_values = load_workbook(disk, gui.input_path_var).wb.sheetnames

\* C11: whenever the load -> build -> save sequence of a generate action has
\* started, the sheet list of the selected input file was loaded successfully
\* and the sheet name handed to the builder comes from that list.
C11_GenerateOnlyWhenSheetsLoaded ==
    pc = "start" =>
        /\ SheetListOfSelectedFile
        /\ call.input_file = gui.current_workbook
        /\ call.sheet_name \in Range(gui.sheet_combo_values)

\* C11, the case the claim singles out: the builder has been started on a file
\* whose load failed in browse_input_file, with the sheet name an earlier file
\* left selected.
C11_Witness ==
    /\ pc = "start"
    /\ call.input_file = BROKEN
    /\ gui.current_workbook = INPUT_DEFAULT
    /\ call.sheet_name = SHEET_NAME
    /\ gui.sheet_combo_state = "disabled"

\* ------------------------------------------------------------------------
\* Claims about the records the reader returns (checked under Spec)
\* ------------------------------------------------------------------------

\* the cell of data row k under the column of the given title
CellUnder(k, title) ==
    LET i == CHOOSE j \in 1..Len(TheSheet.headers) : TheSheet.headers[j] = title
    IN  TheSheet.rows[k][i]

\* the text 'None'
NoneText == <<"N", "o", "n", "e">>

\* C12: the records load_data / load_data_from_sheet return for a sheet with
\* all six required titles are one per data row, each holds every required
\* title as a key, and the value under a title is the empty string when the
\* cell holds None (not the text 'None') and the str() of the cell otherwise.
C12_RecordsHoldAllFieldsAsText ==
    (ReadsCompleteSheet /\ pc \in {"slides", "done"}) =>
        /\ Len(data) = Len(TheSheet.rows)
        /\ \A k \in 1..Len(data) :
              /\ Range(REQUIRED_COLUMNS) \subseteq DOMAIN data[k]
              /\ \A h \in Range(REQUIRED_COLUMNS) :
                    /\ CellUnder(k, h).t = "none" =>
                          (data[k][h] = <<>> /\ data[k][h] # NoneText)
                    /\ CellUnder(k, h).t = "str" => data[k][h] = CellUnder(k, h).s
                    /\ CellUnder(k, h).t = "int" =>
                          data[k][h] = IntToStr(CellUnder(k, h).n)

\* C12 witness: the records of a sheet whose first data row holds the number 7
\* under 'word' and whose second holds None there have been returned.
C12_Witness ==
    /\ ReadsCompleteSheet
    /\ pc = "slides"
    /\ Len(data) = 2
    /\ CellUnder(1, "word") = IntCell(7)
    /\ data[1]["word"] = <<"7">>
    /\ CellUnder(2, "word") = NoneCell
    /\ data[2]["word"] = <<>>
    /\ data[2]["word_def"] = <<>>
    /\ Range(REQUIRED_COLUMNS) \subseteq DOMAIN data[2]

\* ------------------------------------------------------------------------
\* Claims about the shape of a wrapped text (checked under SpecText)
\* ------------------------------------------------------------------------

\* ceil(a / b) for positive b
Ceil(a, b) == (a + b - 1) \div b

\* out is t cut into ceil(L/T) consecutive slices, all of T characters but the
\* last, which has what is left (1 to T characters), with a newline and 18
\* spaces after every slice but the last
WrappedShape(t, T, out) ==
    LET L == Len(t)
        n == Ceil(L, T)
        at(k) == (k - 1) * (T + 19)
        size(k) == IF k < n THEN T ELSE L - (n - 1) * T
    IN  /\ Len(out) = L + 19 * (n - 1)
        /\ \A k \in 1..n :
              /\ size(k) \in 1..T
              /\ \A i \in 1..size(k) : out[at(k) + i] = t[(k - 1) * T + i]
        /\ \A k \in 1..(n - 1) :
              /\ out[at(k) + T + 1] = "\n"
              /\ \A i \in 2..19 : out[at(k) + T + i] = " "

\* C13: for every text of length L greater than the threshold T >= 1,
\* process_text returns ceil(L/T) chunks joined by a newline and 18 spaces; the
\* chunks are the consecutive slices of T characters of the text, the last one
\* of 1 to T characters, and the result has L + 19 * (ceil(L/T) - 1) characters.
\* The same holds when the result is wrapped once more.
C13_ChunksAndLength ==
    /\ (tpc # "start" /\ threshold >= 1 /\ Len(text) > threshold) =>
           (~result.raised /\ WrappedShape(text, threshold, result.value))
    /\ (tpc = "rewrapped" /\ threshold >= 1 /\ Len(result.value) > threshold) =>
           (~result2.raised /\ WrappedShape(result.value, threshold, result2.value))

\* C13 witness: a text was cut into at least three chunks, the last shorter
\* than the threshold, and the result has the length the claim gives.
C13_Witness ==
    /\ tpc = "wrapped"
    /\ threshold >= 2
    /\ Len(text) > 2 * threshold
    /\ Len(text) % threshold # 0
    /\ ~result.raised
    /\ Len(result.value) = Len(text) + 19 * (Ceil(Len(text), threshold) - 1)

\* ------------------------------------------------------------------------
\* Claims about what generate reports (checked under SpecGUI)
\* ------------------------------------------------------------------------

\* the step that ends a generate action: the success box is shown exactly when
\* generate_ppt_from_sheet returned, that is when ppt.save wrote the file
GenerateReportsWhatHappened ==
    (pc = "done" /\ pc' = "idle") =>
        /\ outcome.kind = "returned" =>
              /\ written[call.output_file] = Saved(ppt)
              /\ shown' = Dialog("showinfo", "success")
        /\ shown'.kind \in {"showwarning", "showerror"} =>
              outcome.kind = "raised"

\* C14: a generate action reports success if and only if the deck was built and
\* the output file was saved: after every save without error (a sheet with no
\* data rows included) the success box is shown, and a warning or error box is
\* shown only when the builder raised and wrote no file.
C14_SuccessIffSaved == [][GenerateReportsWhatHappened]_vars

\* C14, the case of a sheet without data rows: the deck was saved, with no
\* slides, and the form shows the warning that the generation failed.
C14_Witness ==
    /\ pc = "idle"
    /\ gui.sheet_var = SHEET_EMPTY
    /\ gui.output_path_var = OUTPUT_DEFAULT
    /\ written[OUTPUT_DEFAULT] = Saved(<<>>)
    /\ shown = Dialog("showwarning", "generate_failed")
    /\ gui.status_var = "generate_failed"

====
